---- MODULE Spec2Model ----
(***************************************************************************)
(* The particle canvas of me-and-qu: the ParticleCanvas React component    *)
(* (three builds of it are in the repository), its field generators, the   *)
(* asynchronous image loads, and the animation loop.                       *)
(*                                                                         *)
(* Lengths are integers in thousandths of a pixel (1 px = 1000), angles    *)
(* in milliradians, friction and ease in thousandths, gap in tenths.       *)
(* Math.sin / Math.cos are a rational approximation, Math.hypot an integer  *)
(* root.                                                                   *)
(***************************************************************************)
EXTENDS Integers, Sequences, FiniteSets, TLC

\* ------------------------------------------------------------------ bounds
MaxGens == 2        \* generator runs (fields created) in one behaviour
MaxLoads == 3       \* image loads started in one behaviour
MaxFrames == 2      \* frames rendered in one behaviour
MaxChanges == 1     \* prop changes and resizes in one behaviour
BodyCount == 1      \* body samples of one tree (particleCount, 2800 or 2000)
OrnamentCount == 1  \* ornaments of one tree (ornamentCount, 120 or 100)
StarCount == 1      \* star particles of one tree (starCount, 80 or 60)
MaxSettleFrames == 160  \* frames integrated in one behaviour of SpecSettle
SettleFrames == 120     \* frames after which a particle has to be near its home
Epsilon == 3000         \* "near": 3 px, in thousandths of a pixel
MaxForceFrames == 2     \* frames integrated in one behaviour of SpecForce
ForceTolerance == 100   \* rounding allowed on a force, in thousandths of a pixel per frame

\* ------------------------------------------------------- the three builds
\* "plain": src/components/ParticleCanvas.tsx
\* "depth": src/unnamed/part_002 (depth-aware particle, 10 ms timer, fallback)
\* "depthNoFallback": src/unnamed/part_001 (as depth, fallback removed)
Builds == {"plain", "depth", "depthNoFallback"}

FALLBACK_IMAGE_URL ==
    "https://images.unsplash.com/photo-1543589077-47d81606c1bf?q=80&w=1200&auto=format&fit=crop"
DefaultImageSrc == "tree.jpg"
Sources == {"tree.jpg", "photo.png", FALLBACK_IMAGE_URL}
Variants == {"generative", "image"}

\* the build delays generation by a timer and clears the field first
HasTimer(b) == b # "plain"
\* the build's onerror switches to the fallback source
HasFallback(b) == b # "depthNoFallback"
\* the build's particle carries a depth z and a baseSize
IsDepth(b) == b # "plain"

\* ------------------------------------------------------------- arithmetic
Min(a, b) == IF a <= b THEN a ELSE b
Max(a, b) == IF a >= b THEN a ELSE b
Abs(a) == IF a < 0 THEN -a ELSE a

\* Math.sin on a half turn, y in 0..3142 milliradians, in thousandths:
\* 16 y (PI - y) / (5 PI^2 - 4 y (PI - y)), exact to 0.002
SinHalfTurn(y) ==
    LET q == y * (3142 - y)
    IN (((16 * q) \div 100) * 1000) \div ((5 * 3142 * 3142 - 4 * q) \div 100)
\* Math.sin of an angle in milliradians, in thousandths
Sin(a) ==
    LET x == a % 6284
    IN IF x <= 3142 THEN SinHalfTurn(x) ELSE -SinHalfTurn(x - 3142)
\* Math.cos of an angle in milliradians, in thousandths
Cos(a) == Sin(a + 1571)

RECURSIVE SqrtIter(_, _, _)
SqrtIter(n, lo, hi) ==
    IF lo >= hi THEN lo
    ELSE LET mid == (lo + hi + 1) \div 2
         IN IF mid * mid <= n THEN SqrtIter(n, mid, hi) ELSE SqrtIter(n, lo, mid - 1)
\* floor of the square root
ISqrt(n) == SqrtIter(n, 0, Min(n, 46340))
\* Math.hypot of two lengths: exact to a thousandth of a pixel below 30 px,
\* computed on hundredths of a pixel above
Hypot(dx, dy) ==
    IF Abs(dx) < 30000 /\ Abs(dy) < 30000
    THEN ISqrt(dx * dx + dy * dy)
    ELSE 10 * ISqrt((dx \div 10) * (dx \div 10) + (dy \div 10) * (dy \div 10))

\* ---------------------------------------------------------------- settings
\* the App with the control panel: gap 4, size 2.0, friction 0.94, ease 0.08,
\* breathIntensity 3
DefaultSettings ==
    [gap |-> 40, size |-> 2000, friction |-> 940, ease |-> 80, breathIntensity |-> 3000]

GapValues == {40, 30}
SizeValues == {2000, 3000}
FrictionValues == {940, 900}
EaseValues == {80, 100}
BreathValues == {3000, 500}
PhysicsKeys == {"friction", "ease", "size", "breathIntensity"}
PhysicsValues(k) ==
    CASE k = "friction" -> FrictionValues
      [] k = "ease" -> EaseValues
      [] k = "size" -> SizeValues
      [] OTHER -> BreathValues

\* positions of the pointer relative to the canvas, in thousandths of a pixel
PointerPositions == {<<1000, 1000>>, <<6000, 5000>>}
\* e.touches of a touchmove event: no touch point, one, or two
TouchLists == {<<>>, << <<1000, 1000>> >>, << <<6000, 5000>>, <<1000, 1000>> >>}

\* window.innerWidth x window.innerHeight, in pixels
WinSizes == {<<8, 8>>, <<16, 8>>}
\* the same and a window so small that the drawn image (80 % of the canvas,
\* centred) covers every pixel of it
SampleWinSizes == WinSizes \cup {<<4, 4>>}

\* ------------------------------------------------------------ environment
\* The decoded images: width and height in pixels and the RGBA of each pixel.
ImgWidth(src) == IF src = "photo.png" THEN 2 ELSE 1
ImgHeight(src) == 1
ImgPixel(src, u, v) ==
    CASE src = "tree.jpg" -> <<40, 160, 60, 255>>
      [] src = "photo.png" -> IF u = 0 THEN <<250, 240, 230, 255>> ELSE <<90, 20, 20, 15>>
      [] src = "faint.png" -> <<100, 100, 100, 5>>
      [] src = "alpha10.png" -> <<100, 100, 100, 10>>
      [] src = "alpha20.png" -> <<100, 100, 100, 20>>
      [] src = "grey220.png" -> <<220, 220, 220, 255>>
      [] src = "grey230.png" -> <<230, 230, 230, 255>>
      [] OTHER -> <<10, 10, 200, 255>>

\* one-pixel images at and around the thresholds of the sampler
ProbeSources ==
    {"tree.jpg", "photo.png", "faint.png", "alpha10.png", "alpha20.png",
     "grey220.png", "grey230.png"}
\* settings.gap (tenths): negative, zero, fractions below 1, and above
ProbeGaps == {-10, 0, 5, 25, 40, 120}

\* Math.random() draws of one Particle constructor, in thousandths:
\* sx, sy = random - 0.5; phase = random * 2 PI (milliradians);
\* speed = 0.001 + random * 0.002 (milliradians per frame); z = (random - 0.5) * 2
ParticleDraw1 == [sx |-> 250, sy |-> -250, phase |-> 0, speed |-> 1, z |-> 500]
ParticleDraw2 == [sx |-> -500, sy |-> 0, phase |-> 1571, speed |-> 2, z |-> -1000]
ParticleDraws == {ParticleDraw1, ParticleDraw2}

\* Math.random() draws of one run of the tree generator:
\* hp = hPercent of a body sample (percent), fx = 2 * (random - 0.5) of its
\* offset (thousandths), c = the random of its colour channels (thousandths),
\* ohp, ofx, og = the same for an ornament and its gold/red draw,
\* sang, sdist = angle (milliradians) and distance (thousandths of a px) of a star
TreeDraw1 == [hp |-> 50, fx |-> 500, c |-> 0, ohp |-> 45, ofx |-> -500, og |-> 700,
              sang |-> 0, sdist |-> 1000]
TreeDraw2 == [hp |-> 100, fx |-> 0, c |-> 999, ohp |-> 0, ofx |-> 998, og |-> 100,
              sang |-> 4712, sdist |-> 14000]
\* the draws of one run of the tree generator and of the particles it constructs
TreeDraws == {[td |-> TreeDraw1, rnd |-> ParticleDraw1], [td |-> TreeDraw2, rnd |-> ParticleDraw2]}

\* draws of one run at and around the ends of their ranges: hPercent in (0, 1],
\* 2 * (random - 0.5) in [-1, 1), the hPercent of an ornament in [0, 0.9)
EdgeTreeDraws ==
    {[td |-> [hp |-> h, fx |-> f, c |-> 500, ohp |-> oh, ofx |-> of, og |-> 700,
              sang |-> 0, sdist |-> 1000],
      rnd |-> ParticleDraw1] :
        h \in {1, 50, 100}, f \in {-1000, -999, 0, 999}, oh \in {0, 89},
        of \in {-1000, 999}}
\* window sizes for the tree: tiny, medium, and beyond both clamps of the tree
TreeWinSizes == {<<8, 8>>, <<400, 300>>, <<2000, 1000>>}

\* 1000 * (1 + 0.15 * Math.sin(hPercent * 25)) for hPercent in percent
BranchWave(hp) == 1000 + (150 * Sin(hp * 250)) \div 1000

\* ------------------------------------------------------------- Particle
\* scatter of the start position around the origin (thousandths of a px)
ScatterX(b, sx, winW, winH) ==
    CASE b = "plain" -> (sx * winW * 3) \div 2
      [] b = "depth" -> sx * winW
      [] OTHER -> (sx * Min(winW, winH) * 15) \div 100
ScatterY(b, sy, winW, winH) ==
    CASE b = "plain" -> (sy * winH * 3) \div 2
      [] b = "depth" -> sy * winH
      [] OTHER -> (sy * Min(winW, winH) * 15) \div 100

NewParticle(b, id, x, y, color, size, isOrnament, rnd, winW, winH) ==
    [id |-> id,
     originX |-> x, originY |-> y,
     z |-> IF IsDepth(b) THEN rnd.z ELSE 0,
     x |-> x + ScatterX(b, rnd.sx, winW, winH),
     y |-> y + ScatterY(b, rnd.sy, winW, winH),
     vx |-> 0, vy |-> 0,
     color |-> color,
     baseSize |-> size,
     size |-> size,
     isOrnament |-> isOrnament,
     randomPhase |-> rnd.phase,
     oscillationSpeed |-> IF IsDepth(b) THEN 20 ELSE rnd.speed]

\* interaction radius (px) and repulsion strength of the build
ForceDistance(b) == CASE b = "plain" -> 150 [] b = "depth" -> 100 [] OTHER -> 80
RepulsionStrength(b) == CASE b = "plain" -> 25 [] b = "depth" -> 30 [] OTHER -> 20

\* the home (target) position: origin + breathing (+ parallax in the depth builds)
HomeX(b, p, settings, time, mouse, canvasWidth) ==
    IF IsDepth(b)
    THEN LET centerX == (canvasWidth * 1000) \div 2
             parallaxX == IF mouse.active
                          THEN ((((mouse.x - centerX) * 50) \div 1000) * p.z) \div 1000
                          ELSE (Sin(time * 10) * 10 * p.z) \div 1000
             breathX == (Sin(time * 20 + p.randomPhase) * settings.breathIntensity) \div 1000
         IN p.originX + parallaxX + breathX
    ELSE LET breathRange == IF p.isOrnament THEN (settings.breathIntensity * 3) \div 2
                                            ELSE settings.breathIntensity
         IN p.originX
            + (Sin(time * p.oscillationSpeed + p.randomPhase) * breathRange) \div 1000
HomeY(b, p, settings, time, mouse, canvasHeight) ==
    IF IsDepth(b)
    THEN LET centerY == (canvasHeight * 1000) \div 2
             parallaxY == IF mouse.active
                          THEN ((((mouse.y - centerY) * 50) \div 1000) * p.z) \div 1000
                          ELSE (Cos(time * 10) * 10 * p.z) \div 1000
             breathY == (Cos(time * 20 + p.randomPhase) * settings.breathIntensity) \div 1000
         IN p.originY + parallaxY + breathY
    ELSE LET breathRange == IF p.isOrnament THEN (settings.breathIntensity * 3) \div 2
                                            ELSE settings.breathIntensity
         IN p.originY
            + (Cos(time * p.oscillationSpeed + p.randomPhase) * breathRange) \div 1000

\* (mutant) the repulsion has its full strength everywhere inside the radius
MouseForce_NoFalloff(b, p, mouse) ==
    IF ~mouse.active THEN <<0, 0>>
    ELSE LET dx == mouse.x - p.x
             dy == mouse.y - p.y
             R == ForceDistance(b) * 1000
         IN IF Abs(dx) >= R \/ Abs(dy) >= R THEN <<0, 0>>
            ELSE LET distance == Hypot(dx, dy)
                 IN IF distance >= R THEN <<0, 0>>
                    ELSE IF distance = 0
                         THEN <<-(RepulsionStrength(b) * 1000), 0>>
                         ELSE LET S == RepulsionStrength(b)
                              IN << -(((dx * 1000) \div distance) * S),
                                    -(((dy * 1000) \div distance) * S) >>

\* the repulsion force <<fx, fy>> of the pointer on the particle
MouseForce(b, p, mouse) ==
    IF ~mouse.active THEN <<0, 0>>
    ELSE LET dx == mouse.x - p.x
             dy == mouse.y - p.y
             R == ForceDistance(b) * 1000
         IN IF Abs(dx) >= R \/ Abs(dy) >= R THEN <<0, 0>>
            ELSE LET distance == Hypot(dx, dy)
                 IN IF distance >= R THEN <<0, 0>>
                    ELSE IF distance = 0
                         THEN <<-(RepulsionStrength(b) * 1000), 0>>
                         ELSE LET force == ((R - distance) * 1000) \div R
                                  S == RepulsionStrength(b)
                              IN << -(((dx * force) \div distance) * S),
                                    -(((dy * force) \div distance) * S) >>

\* the derived size after the velocity update
DerivedSize(b, p, settings, time, vx, vy) ==
    IF IsDepth(b)
    THEN LET depthScale == 1000 + (p.z * 300) \div 1000
         IN Max(100, (p.baseSize * depthScale) \div 1000)
    ELSE LET speed == Hypot(vx, vy)
             twinkle == Sin(time * 50 + p.randomPhase)
             sizeMultiplier == IF p.isOrnament THEN 18 ELSE 10
             factor == 800 + (300 * twinkle) \div 1000 + Min(speed \div 10, 400)
         IN (((settings.size * sizeMultiplier) \div 10) * factor) \div 1000

\* (mutant) the velocity is not multiplied by friction
Update_Undamped(b, p, settings, time, mouse, canvasWidth, canvasHeight) ==
    LET homeX == HomeX(b, p, settings, time, mouse, canvasWidth)
        homeY == HomeY(b, p, settings, time, mouse, canvasHeight)
        f == MouseForce(b, p, mouse)
        vx1 == p.vx + ((homeX - p.x) * settings.ease) \div 1000 + f[1]
        vy1 == p.vy + ((homeY - p.y) * settings.ease) \div 1000 + f[2]
    IN [p EXCEPT !.vx = vx1, !.vy = vy1,
                 !.x = p.x + vx1, !.y = p.y + vy1,
                 !.size = DerivedSize(b, p, settings, time, vx1, vy1)]

\* (mutant) the velocity is damped before the forces are added
Update_DampsFirst(b, p, settings, time, mouse, canvasWidth, canvasHeight) ==
    LET homeX == HomeX(b, p, settings, time, mouse, canvasWidth)
        homeY == HomeY(b, p, settings, time, mouse, canvasHeight)
        f == MouseForce(b, p, mouse)
        vx1 == (p.vx * settings.friction) \div 1000
               + ((homeX - p.x) * settings.ease) \div 1000 + f[1]
        vy1 == (p.vy * settings.friction) \div 1000
               + ((homeY - p.y) * settings.ease) \div 1000 + f[2]
    IN [p EXCEPT !.vx = vx1, !.vy = vy1,
                 !.x = p.x + vx1, !.y = p.y + vy1,
                 !.size = DerivedSize(b, p, settings, time, vx1, vy1)]

\* (mutant) the step also moves the anchor to the new position
Update_MovesOrigin(b, p, settings, time, mouse, canvasWidth, canvasHeight) ==
    LET homeX == HomeX(b, p, settings, time, mouse, canvasWidth)
        homeY == HomeY(b, p, settings, time, mouse, canvasHeight)
        f == MouseForce(b, p, mouse)
        vx1 == p.vx + ((homeX - p.x) * settings.ease) \div 1000 + f[1]
        vy1 == p.vy + ((homeY - p.y) * settings.ease) \div 1000 + f[2]
        vx2 == (vx1 * settings.friction) \div 1000
        vy2 == (vy1 * settings.friction) \div 1000
    IN [p EXCEPT !.vx = vx2, !.vy = vy2,
                 !.x = p.x + vx2, !.y = p.y + vy2,
                 !.originX = p.x + vx2, !.originY = p.y + vy2,
                 !.size = DerivedSize(b, p, settings, time, vx2, vy2)]

\* Particle.update: one integration step of one particle
Update(b, p, settings, time, mouse, canvasWidth, canvasHeight) ==
    LET homeX == HomeX(b, p, settings, time, mouse, canvasWidth)
        homeY == HomeY(b, p, settings, time, mouse, canvasHeight)
        f == MouseForce(b, p, mouse)
        vx1 == p.vx + ((homeX - p.x) * settings.ease) \div 1000 + f[1]
        vy1 == p.vy + ((homeY - p.y) * settings.ease) \div 1000 + f[2]
        vx2 == (vx1 * settings.friction) \div 1000
        vy2 == (vy1 * settings.friction) \div 1000
    IN [p EXCEPT !.vx = vx2, !.vy = vy2,
                 !.x = p.x + vx2, !.y = p.y + vy2,
                 !.size = DerivedSize(b, p, settings, time, vx2, vy2)]

\* the forEach of one frame: every particle updated once
UpdateAll(b, ps, settings, time, mouse, canvasWidth, canvasHeight) ==
    [i \in 1..Len(ps) |-> Update(b, ps[i], settings, time, mouse, canvasWidth, canvasHeight)]

\* ------------------------------------------------------- tree generator
\* (mutant) a body sample is kept whatever its offset
TreeParticles_NoSkip(b, gen, cw, ch, size, td, rnd, winW, winH) ==
    LET cx == 500 * cw
        cy == 850 * ch
        treeHeight == Min(700 * ch, 600000)
        maxRadius == Min(350 * cw, 250000)
        \* 1. tree body
        bodyY == cy - (td.hp * treeHeight) \div 100
        bodyRadius == (((maxRadius * (100 - td.hp)) \div 100) * BranchWave(td.hp)) \div 1000
        bodyOffset == (td.fx * bodyRadius) \div 1000
        bodyColor == << 20 + (td.c * 40) \div 1000, 100 + (td.c * 100) \div 1000,
                        40 + (td.c * 40) \div 1000,
                        IF IsDepth(b) THEN 800 + (td.c * 200) \div 1000
                                      ELSE 600 + (td.c * 400) \div 1000 >>
        nBody == BodyCount
        body == [i \in 1..nBody |->
                   NewParticle(b, <<gen, i>>, cx + bodyOffset, bodyY, bodyColor,
                               size, FALSE, rnd, winW, winH)]
        \* 2. ornaments
        ornY == cy - (td.ohp * treeHeight) \div 100
        ornRadius == (maxRadius * (100 - td.ohp)) \div 100
        ornOffset == (td.ofx * ((ornRadius * 9) \div 10)) \div 1000
        ornAlpha == IF IsDepth(b) THEN 1000 ELSE 900
        ornColor == IF td.og > 600 THEN <<255, 215, 0, ornAlpha>>
                                   ELSE <<220, 40, 40, ornAlpha>>
        orn == [i \in 1..OrnamentCount |->
                  NewParticle(b, <<gen, nBody + i>>, cx + ornOffset, ornY, ornColor,
                              (size * 15) \div 10, TRUE, rnd, winW, winH)]
        \* 3. star
        topY == cy - treeHeight
        star == [i \in 1..StarCount |->
                   NewParticle(b, <<gen, nBody + OrnamentCount + i>>,
                               cx + (Cos(td.sang) * td.sdist) \div 1000,
                               topY + (Sin(td.sang) * td.sdist) \div 1000,
                               <<255, 255, 200, 1000>>,
                               (size * 12) \div 10, TRUE, rnd, winW, winH)]
    IN body \o orn \o star

\* initGenerativeTree: the particles of one run, canvas cw x ch pixels
TreeParticles(b, gen, cw, ch, size, td, rnd, winW, winH) ==
    LET cx == 500 * cw
        cy == 850 * ch
        treeHeight == Min(700 * ch, 600000)
        maxRadius == Min(350 * cw, 250000)
        \* 1. tree body
        bodyY == cy - (td.hp * treeHeight) \div 100
        bodyRadius == (((maxRadius * (100 - td.hp)) \div 100) * BranchWave(td.hp)) \div 1000
        bodyOffset == (td.fx * bodyRadius) \div 1000
        bodyColor == << 20 + (td.c * 40) \div 1000, 100 + (td.c * 100) \div 1000,
                        40 + (td.c * 40) \div 1000,
                        IF IsDepth(b) THEN 800 + (td.c * 200) \div 1000
                                      ELSE 600 + (td.c * 400) \div 1000 >>
        nBody == IF Abs(bodyOffset) < bodyRadius THEN BodyCount ELSE 0
        body == [i \in 1..nBody |->
                   NewParticle(b, <<gen, i>>, cx + bodyOffset, bodyY, bodyColor,
                               size, FALSE, rnd, winW, winH)]
        \* 2. ornaments
        ornY == cy - (td.ohp * treeHeight) \div 100
        ornRadius == (maxRadius * (100 - td.ohp)) \div 100
        ornOffset == (td.ofx * ((ornRadius * 9) \div 10)) \div 1000
        ornAlpha == IF IsDepth(b) THEN 1000 ELSE 900
        ornColor == IF td.og > 600 THEN <<255, 215, 0, ornAlpha>>
                                   ELSE <<220, 40, 40, ornAlpha>>
        orn == [i \in 1..OrnamentCount |->
                  NewParticle(b, <<gen, nBody + i>>, cx + ornOffset, ornY, ornColor,
                              (size * 15) \div 10, TRUE, rnd, winW, winH)]
        \* 3. star
        topY == cy - treeHeight
        star == [i \in 1..StarCount |->
                   NewParticle(b, <<gen, nBody + OrnamentCount + i>>,
                               cx + (Cos(td.sang) * td.sdist) \div 1000,
                               topY + (Sin(td.sang) * td.sdist) \div 1000,
                               <<255, 255, 200, 1000>>,
                               (size * 12) \div 10, TRUE, rnd, winW, winH)]
    IN body \o orn \o star

\* ------------------------------------------------------ image generator
MinGap(b) == IF b = "plain" THEN 1 ELSE 3
AlphaThreshold(b) == IF b = "plain" THEN 10 ELSE 20
ShinyThreshold(b) == IF b = "plain" THEN 220 ELSE 230

\* (mutant) the gap is rounded to the nearest integer and not clamped below
\* by the configured minimum, only by 1
Stride_Rounds(b, gap) == Max(1, (gap + 5) \div 10)

\* the sampling stride: Math.max(minimum, Math.floor(settings.gap))
Stride(b, gap) == Max(MinGap(b), gap \div 10)

\* the RGBA at canvas pixel (x, y) after clearRect and drawImage of the image,
\* scaled to "contain" * 0.8 and centred
DrawnPixel(src, cw, ch, x, y) ==
    LET iw == ImgWidth(src)
        ih == ImgHeight(src)
        scale == (Min((cw * 1000) \div iw, (ch * 1000) \div ih) * 8) \div 10
        w == iw * scale
        h == ih * scale
        offsetX == (cw * 1000 - w) \div 2
        offsetY == (ch * 1000 - h) \div 2
        px == x * 1000 + 500
        py == y * 1000 + 500
    IN IF scale > 0 /\ px >= offsetX /\ px < offsetX + w /\ py >= offsetY /\ py < offsetY + h
       THEN ImgPixel(src, (px - offsetX) \div scale, (py - offsetY) \div scale)
       ELSE <<0, 0, 0, 0>>

\* (mutant) the loops run while x <= canvas.width and y <= canvas.height
SamplePoints_Inclusive(cw, ch, gap) ==
    LET nx == cw \div gap + 1
        ny == ch \div gap + 1
    IN [k \in 1..(nx * ny) |-> [x |-> ((k - 1) % nx) * gap, y |-> ((k - 1) \div nx) * gap]]

\* the pixels visited by the two sampling loops, in order (y outer, x inner)
SamplePoints(cw, ch, gap) ==
    LET nx == (cw + gap - 1) \div gap
        ny == (ch + gap - 1) \div gap
    IN [k \in 1..(nx * ny) |-> [x |-> ((k - 1) % nx) * gap, y |-> ((k - 1) \div nx) * gap]]

\* img.onload after getImageData: the particles sampled from the drawn image
ImageParticles(b, gen, src, gapSetting, size, cw, ch, rnd, winW, winH) ==
    LET gap == Stride(b, gapSetting)
        kept == SelectSeq(SamplePoints(cw, ch, gap),
                          LAMBDA c: DrawnPixel(src, cw, ch, c.x, c.y)[4] > AlphaThreshold(b))
    IN [i \in 1..Len(kept) |->
          LET pix == DrawnPixel(src, cw, ch, kept[i].x, kept[i].y)
              isShiny == pix[1] + pix[2] + pix[3] > 3 * ShinyThreshold(b)
              color == << pix[1], pix[2], pix[3],
                          IF IsDepth(b) THEN 1000 ELSE (pix[4] * 1000) \div 255 >>
          IN NewParticle(b, <<gen, i>>, kept[i].x * 1000, kept[i].y * 1000, color,
                         size, isShiny, rnd, winW, winH)]

\* ------------------------------------------------------------------ state
VARIABLES
    build,          \* which of the three builds of ParticleCanvas runs
    mounted,        \* the component is mounted
    variant,        \* prop variant
    imageSrc,       \* prop imageSrc
    settings,       \* prop settings
    activeImageSrc, \* useState activeImageSrc
    changes,        \* number of prop changes and resizes so far
    win,            \* <<window.innerWidth, window.innerHeight>>
    fm,             \* what the initialization effect owns: the field and its loads
    anim,           \* what the animation effect owns: the render loop
    mouseRef,       \* mouseRef.current
    listeners,      \* the pointer-event listeners the mouse-handlers effect registered
    console,        \* console.warn / console.error output
    last            \* the handler that ran last, with the image source it was about
                    \* or the pointer event it was given

vars == <<build, mounted, variant, imageSrc, settings, activeImageSrc, changes,
          win, fm, anim, mouseRef, listeners, console, last>>

\* mousemove, mouseout and touchend on window, touchmove on the canvas
PointerEvents == {"mousemove", "touchmove", "mouseout", "touchend"}

\* fm.ps           particlesRef.current
\* fm.fieldGen     index in fm.gens of the run that made fm.ps, 0 for the initial
\*                 or cleared []
\* fm.gens         the generator runs so far: kind, source, stride setting, extent
\* fm.loads        the Image objects whose onload / onerror is still to come, each
\*                 with the activeImageSrc and settings its closure captured
\* fm.nLoads       number of loads started
\* fm.timer        the 10 ms timers set and neither fired nor cleared, each with
\*                 the variant, activeImageSrc and settings its callback captured
\* fm.resize       the resize listeners registered on window, each with the
\*                 variant, activeImageSrc and settings its handleResize captured
\* fm.canvasW/H    canvas.width, canvas.height
\* fm.drawn       the source of the image that drawImage put on the canvas and that
\*                no clearRect or resize of the canvas has removed since, "" if none
\* fm.closure      variant, activeImageSrc and settings captured by the latest run of
\*                 the initialization effect (used by its timer and handleResize)
particlesRef == fm.ps

\* anim.raf        the animation-frame callbacks scheduled: id, the loop's local
\*                 time and the settings its closure captured
\* anim.ref        animationRef.current
\* anim.frames     number of frames rendered (also the last request id)
\* anim.fades      number of fade layers painted on the canvas
\* anim.inFrame    number of times the field was integrated since the display
\*                 refresh began whose frame callbacks ran last

NoClosure == [variant |-> "generative", src |-> DefaultImageSrc, settings |-> DefaultSettings]

Init ==
    /\ build \in Builds
    /\ mounted = FALSE
    /\ variant \in Variants
    /\ imageSrc = DefaultImageSrc
    /\ settings = DefaultSettings
    /\ activeImageSrc = DefaultImageSrc
    /\ changes = 0
    /\ win = <<8, 8>>
    /\ fm = [ps |-> <<>>, fieldGen |-> 0, gens |-> <<>>, loads |-> {}, nLoads |-> 0,
             timer |-> {}, resize |-> {}, canvasW |-> 0, canvasH |-> 0,
             drawn |-> "", closure |-> NoClosure]
    /\ anim = [raf |-> {}, ref |-> 0, frames |-> 0, fades |-> 0, inFrame |-> 0]
    /\ mouseRef = [x |-> 0, y |-> 0, active |-> FALSE]
    /\ listeners = {}
    /\ console = <<>>
    /\ last = [op |-> "init", src |-> ""]

Pick(S, cond) == IF cond THEN S ELSE {CHOOSE x \in S : TRUE}

\* ---------------------------------------------------- initialization effect
\* (mutant) the new particles are pushed onto the old array
InitGenerativeTree_Append(f, cl, d, w) ==
    [f EXCEPT !.ps = @ \o TreeParticles(build, Len(f.gens) + 1, f.canvasW, f.canvasH,
                                        cl.settings.size, d.td, d.rnd, w[1], w[2]),
              !.fieldGen = Len(f.gens) + 1,
              !.gens = Append(@, [kind |-> "tree", src |-> "", gap |-> 0,
                                  w |-> f.canvasW, h |-> f.canvasH])]

\* initGenerativeTree() with closure cl: a new field replaces particlesRef.current
InitGenerativeTree(f, cl, d, w) ==
    [f EXCEPT !.ps = TreeParticles(build, Len(f.gens) + 1, f.canvasW, f.canvasH,
                                   cl.settings.size, d.td, d.rnd, w[1], w[2]),
              !.fieldGen = Len(f.gens) + 1,
              !.gens = Append(@, [kind |-> "tree", src |-> "", gap |-> 0,
                                  w |-> f.canvasW, h |-> f.canvasH])]

\* initFromImage() with closure cl: a new Image starts loading cl.src
InitFromImage(f, cl) ==
    [f EXCEPT !.loads = @ \cup {[id |-> f.nLoads + 1, src |-> cl.src,
                                 settings |-> cl.settings]},
              !.nLoads = @ + 1]

\* if (variant === 'generative') initGenerativeTree(); else initFromImage();
Execute(f, cl, d, w) ==
    IF cl.variant = "generative" THEN InitGenerativeTree(f, cl, d, w)
                                 ELSE InitFromImage(f, cl)

\* (mutant) the cleanup does not clear the timer
Cleanup_KeepsTimer(f) == [f EXCEPT !.resize = @ \ {f.closure}]

\* the cleanup of the latest run of the initialization effect:
\* removeEventListener('resize', handleResize) and, in the builds with a timer,
\* clearTimeout(timer)
Cleanup(f) == [f EXCEPT !.resize = @ \ {f.closure}, !.timer = @ \ {f.closure}]

\* the cleanup of the previous run of the initialization effect, then one run
\* of it with closure cl
InitEffect(f, cl, d, w) ==
    LET f1 == [Cleanup(f) EXCEPT !.canvasW = w[1], !.canvasH = w[2], !.drawn = "",
                                 !.closure = cl, !.resize = @ \cup {cl}]
    IN IF HasTimer(build)
       THEN [f1 EXCEPT !.ps = <<>>, !.fieldGen = 0, !.timer = @ \cup {cl}]
       ELSE Execute(f1, cl, d, w)

WithinBudget(f) == Len(f.gens) <= MaxGens /\ f.nLoads <= MaxLoads

\* the effect run generates a tree at once (so random draws are taken)
DrawsTree(cl) == ~HasTimer(build) /\ cl.variant = "generative"

\* ----------------------------------------------------------- render loop
\* (mutant) a pointer handler runs between the updates of two particles: the
\* first particle sees the pointer as it was, the others see it toggled
Frame_LivePointer(ps, s, t, f) ==
    [i \in 1..Len(ps) |->
        Update(build, ps[i], s, t,
               IF i = 1 THEN mouseRef ELSE [mouseRef EXCEPT !.active = ~@],
               f.canvasW, f.canvasH)]

\* the forEach of animate(): the field ps integrated with the settings s that the
\* loop's closure captured, at the loop's local time t
Frame(ps, s, t, f) == UpdateAll(build, ps, s, t, mouseRef, f.canvasW, f.canvasH)

\* the start of a frame: the fade layer is painted over the whole canvas
Paint(a) == [a EXCEPT !.fades = @ + 1]

\* time++; requestAnimationFrame(animate) at the end of a frame
Request(a, s, t) ==
    [a EXCEPT !.raf = @ \cup {[id |-> a.frames + 1, time |-> t + 1, settings |-> s]},
              !.ref = a.frames + 1,
              !.frames = @ + 1]

\* the cleanup of the animation effect: cancelAnimationFrame(animationRef.current)
CancelLoop(a) ==
    IF a.ref # 0 THEN [a EXCEPT !.raf = {r \in @ : r.id # a.ref}] ELSE a

\* one run of the animation effect: time = 0; animate()
AnimationEffect(a, s) == Request(Paint([a EXCEPT !.inFrame = @ + 1]), s, 0)

\* ---------------------------------------------------------------- actions
Closure(v, src, s) == [variant |-> v, src |-> src, settings |-> s]

\* the component mounts (once: no frame was rendered yet): the mouse-handlers
\* effect, the initialization effect, then the animation effect;
\* a tree generated at once takes its random draws from D
MountWith(D) ==
    /\ ~mounted /\ anim.frames = 0
    /\ mounted' = TRUE
    /\ listeners' = PointerEvents
    /\ LET cl == Closure(variant, activeImageSrc, settings)
       IN \E d \in Pick(D, DrawsTree(cl)) :
            LET f1 == InitEffect(fm, cl, d, win)
            IN /\ fm' = [f1 EXCEPT !.ps = Frame(f1.ps, settings, 0, f1)]
               /\ anim' = AnimationEffect(anim, settings)
    /\ last' = [op |-> "Mount", src |-> ""]
    /\ UNCHANGED <<build, variant, imageSrc, settings, activeImageSrc, changes, win,
                   mouseRef, console>>

Mount == MountWith(TreeDraws)

\* the parent renders with another variant
SetVariant(v) ==
    /\ mounted /\ changes < MaxChanges /\ v # variant
    /\ variant' = v
    /\ changes' = changes + 1
    /\ LET cl == Closure(v, activeImageSrc, settings)
       IN \E d \in Pick(TreeDraws, DrawsTree(cl)) :
            fm' = InitEffect(fm, cl, d, win)
    /\ WithinBudget(fm')
    /\ last' = [op |-> "SetVariant", src |-> ""]
    /\ UNCHANGED <<build, listeners, mounted, imageSrc, settings, activeImageSrc, win, anim,
                   mouseRef, console>>

\* the parent renders with another imageSrc: setActiveImageSrc(imageSrc)
SetImageSrc(src) ==
    /\ mounted /\ changes < MaxChanges /\ src # imageSrc
    /\ imageSrc' = src
    /\ changes' = changes + 1
    /\ activeImageSrc' = src
    /\ IF src = activeImageSrc
       THEN fm' = fm
       ELSE LET cl == Closure(variant, src, settings)
            IN \E d \in Pick(TreeDraws, DrawsTree(cl)) :
                 fm' = InitEffect(fm, cl, d, win)
    /\ WithinBudget(fm')
    /\ last' = [op |-> "SetImageSrc", src |-> src]
    /\ UNCHANGED <<build, listeners, mounted, variant, settings, win, anim, mouseRef, console>>

\* the parent renders with another settings.gap
SetGap(g) ==
    /\ mounted /\ changes < MaxChanges /\ g # settings.gap
    /\ settings' = [settings EXCEPT !.gap = g]
    /\ changes' = changes + 1
    /\ LET cl == Closure(variant, activeImageSrc, settings')
       IN \E d \in Pick(TreeDraws, DrawsTree(cl)) :
            fm' = InitEffect(fm, cl, d, win)
    /\ WithinBudget(fm')
    /\ last' = [op |-> "SetGap", src |-> ""]
    /\ UNCHANGED <<build, listeners, mounted, variant, imageSrc, activeImageSrc, win, anim,
                   mouseRef, console>>

\* (mutant) the four physics settings are dependencies of the initialization
\* effect as well
SetPhysics_Regenerates(k, val) ==
    /\ mounted /\ changes < MaxChanges /\ anim.frames < MaxFrames
    /\ val # settings[k]
    /\ settings' = [settings EXCEPT ![k] = val]
    /\ changes' = changes + 1
    /\ anim' = AnimationEffect(CancelLoop(anim), settings')
    /\ LET cl == Closure(variant, activeImageSrc, settings')
       IN \E d \in Pick(TreeDraws, DrawsTree(cl)) :
            LET f1 == InitEffect(fm, cl, d, win)
            IN fm' = [f1 EXCEPT !.ps = Frame(f1.ps, settings', 0, f1)]
    /\ WithinBudget(fm')
    /\ last' = [op |-> "SetPhysics", src |-> ""]
    /\ UNCHANGED <<build, listeners, mounted, variant, imageSrc, activeImageSrc, win, mouseRef,
                   console>>

\* the parent renders with another friction, ease, size or breathIntensity:
\* the animation effect is cleaned up and runs again
SetPhysics(k, val) ==
    /\ mounted /\ changes < MaxChanges /\ anim.frames < MaxFrames
    /\ val # settings[k]
    /\ settings' = [settings EXCEPT ![k] = val]
    /\ changes' = changes + 1
    /\ anim' = AnimationEffect(CancelLoop(anim), settings')
    /\ fm' = [fm EXCEPT !.ps = Frame(fm.ps, settings', 0, fm)]
    /\ last' = [op |-> "SetPhysics", src |-> ""]
    /\ UNCHANGED <<build, listeners, mounted, variant, imageSrc, activeImageSrc, win, mouseRef,
                   console>>

\* (mutant) handleResize regenerates without resizing the canvas
HandleResize_KeepsExtent(w) ==
    /\ changes < MaxChanges /\ w # win
    /\ win' = w
    /\ changes' = changes + 1
    /\ \E cl \in fm.resize :
         \E d \in Pick(TreeDraws, cl.variant = "generative") :
            fm' = Execute(fm, cl, d, w)
    /\ WithinBudget(fm')
    /\ last' = [op |-> "HandleResize", src |-> ""]
    /\ UNCHANGED <<build, listeners, mounted, variant, imageSrc, settings, activeImageSrc, anim,
                   mouseRef, console>>

\* the window is resized to w: a registered handleResize runs
HandleResize(w) ==
    /\ changes < MaxChanges /\ w # win
    /\ win' = w
    /\ changes' = changes + 1
    /\ \E cl \in fm.resize :
         LET f1 == [fm EXCEPT !.canvasW = w[1], !.canvasH = w[2], !.drawn = ""]
         IN \E d \in Pick(TreeDraws, cl.variant = "generative") :
              fm' = Execute(f1, cl, d, w)
    /\ WithinBudget(fm')
    /\ last' = [op |-> "HandleResize", src |-> ""]
    /\ UNCHANGED <<build, listeners, mounted, variant, imageSrc, settings, activeImageSrc, anim,
                   mouseRef, console>>

\* a pending 10 ms timer fires; a tree takes its random draws from D
TimerFireWith(D) ==
    /\ \E cl \in fm.timer :
         LET f1 == [fm EXCEPT !.timer = @ \ {cl}]
         IN \E d \in Pick(D, cl.variant = "generative") :
              fm' = Execute(f1, cl, d, win)
    /\ WithinBudget(fm')
    /\ last' = [op |-> "TimerFire", src |-> ""]
    /\ UNCHANGED <<build, listeners, mounted, variant, imageSrc, settings, activeImageSrc, changes,
                   win, anim, mouseRef, console>>

TimerFire == TimerFireWith(TreeDraws)

\* img.onload of a pending load: clearRect, drawImage, then getImageData, which
\* may throw (tainted canvas); the second clearRect is inside the try block,
\* after getImageData
ImgOnload(l, throws) ==
    /\ l \in fm.loads
    /\ IF throws
       THEN /\ fm' = [fm EXCEPT !.loads = @ \ {l}, !.drawn = l.src]
            /\ console' = Append(console, "error: Error reading image data")
       ELSE /\ Len(fm.gens) < MaxGens
            /\ \E rnd \in ParticleDraws :
                 fm' = [fm EXCEPT
                          !.loads = @ \ {l},
                          !.drawn = "",
                          !.ps = ImageParticles(build, Len(fm.gens) + 1, l.src,
                                                l.settings.gap, l.settings.size,
                                                fm.canvasW, fm.canvasH, rnd,
                                                win[1], win[2]),
                          !.fieldGen = Len(fm.gens) + 1,
                          !.gens = Append(@, [kind |-> "image", src |-> l.src,
                                              gap |-> l.settings.gap,
                                              w |-> fm.canvasW, h |-> fm.canvasH])]
            /\ console' = console
    /\ last' = [op |-> "ImgOnload", src |-> l.src]
    /\ UNCHANGED <<build, listeners, mounted, variant, imageSrc, settings, activeImageSrc, changes,
                   win, anim, mouseRef>>

\* (mutant) onerror loads the failed source again, whatever it is
ImgOnerror_Retries(l) ==
    /\ l \in fm.loads
    /\ console' = Append(console, "warn: Fallback to network image")
    /\ activeImageSrc' = activeImageSrc
    /\ fm' = InitFromImage([fm EXCEPT !.loads = @ \ {l}], Closure(variant, l.src, l.settings))
    /\ WithinBudget(fm')
    /\ last' = [op |-> "ImgOnerror", src |-> l.src]
    /\ UNCHANGED <<build, listeners, mounted, variant, imageSrc, settings, changes, win, anim,
                   mouseRef>>

\* img.onerror of a pending load
ImgOnerror(l) ==
    /\ l \in fm.loads
    /\ LET f1 == [fm EXCEPT !.loads = @ \ {l}]
       IN IF ~HasFallback(build)
          THEN /\ console' = Append(console, "error: Failed to load image")
               /\ fm' = f1
               /\ activeImageSrc' = activeImageSrc
          ELSE IF l.src = FALLBACK_IMAGE_URL
          THEN /\ console' = console
               /\ fm' = f1
               /\ activeImageSrc' = activeImageSrc
          ELSE /\ console' = Append(console, "warn: Fallback to network image")
               /\ IF mounted /\ activeImageSrc # FALLBACK_IMAGE_URL
                  THEN /\ activeImageSrc' = FALLBACK_IMAGE_URL
                       /\ LET cl == Closure(variant, FALLBACK_IMAGE_URL, settings)
                          IN \E d \in Pick(TreeDraws, DrawsTree(cl)) :
                               fm' = InitEffect(f1, cl, d, win)
                  ELSE /\ activeImageSrc' = activeImageSrc
                       /\ fm' = f1
    /\ WithinBudget(fm')
    /\ last' = [op |-> "ImgOnerror", src |-> l.src]
    /\ UNCHANGED <<build, listeners, mounted, variant, imageSrc, settings, changes, win, anim,
                   mouseRef>>

\* (mutant) the cleanup of the animation effect cancels nothing
Unmount_KeepsLoop ==
    /\ mounted
    /\ mounted' = FALSE
    /\ listeners' = {}
    /\ fm' = Cleanup(fm)
    /\ anim' = anim
    /\ last' = [op |-> "Unmount", src |-> ""]
    /\ UNCHANGED <<build, variant, imageSrc, settings, activeImageSrc, changes, win,
                   mouseRef, console>>

\* the component unmounts: the cleanups of the mouse-handlers effect, of the
\* latest run of the initialization effect and of the animation effect
Unmount ==
    /\ mounted
    /\ mounted' = FALSE
    /\ listeners' = {}
    /\ fm' = Cleanup(fm)
    /\ anim' = CancelLoop(anim)
    /\ last' = [op |-> "Unmount", src |-> ""]
    /\ UNCHANGED <<build, variant, imageSrc, settings, activeImageSrc, changes, win,
                   mouseRef, console>>

\* (mutant) animate returns at once when the field is empty
Animate_SkipsEmpty ==
    /\ anim.frames < MaxFrames
    /\ \E r \in anim.raf :
         /\ fm' = [fm EXCEPT !.ps = Frame(fm.ps, r.settings, r.time, fm)]
         /\ anim' = IF fm.ps = <<>>
                    THEN [anim EXCEPT !.raf = @ \ {r}]
                    ELSE Request(Paint([anim EXCEPT !.raf = @ \ {r}, !.inFrame = 1]),
                                 r.settings, r.time)
    /\ last' = [op |-> "Animate", src |-> ""]
    /\ UNCHANGED <<build, listeners, mounted, variant, imageSrc, settings, activeImageSrc, changes,
                   win, mouseRef, console>>

\* animate() called back by requestAnimationFrame when a display refresh
\* begins, at most n frames in all
AnimateWithin(n) ==
    /\ anim.frames < n
    /\ \E r \in anim.raf :
         /\ fm' = [fm EXCEPT !.ps = Frame(fm.ps, r.settings, r.time, fm)]
         /\ anim' = Request(Paint([anim EXCEPT !.raf = @ \ {r}, !.inFrame = 1]),
                            r.settings, r.time)
    /\ last' = [op |-> "Animate", src |-> ""]
    /\ UNCHANGED <<build, listeners, mounted, variant, imageSrc, settings, activeImageSrc, changes,
                   win, mouseRef, console>>

Animate == AnimateWithin(MaxFrames)

\* handleMouseMove: the pointer is at pos (relative to the canvas, thousandths
\* of a pixel)
HandleMouseMove(pos) ==
    /\ "mousemove" \in listeners
    /\ mouseRef' = [x |-> pos[1], y |-> pos[2], active |-> TRUE]
    /\ last' = [op |-> "HandleMouseMove", src |-> "", x |-> pos[1], y |-> pos[2]]
    /\ UNCHANGED <<build, listeners, mounted, variant, imageSrc, settings, activeImageSrc, changes,
                   win, fm, anim, console>>

\* (mutant) handleEnd also puts the pointer back at (0, 0)
HandleEnd_ResetsPosition ==
    /\ {"mouseout", "touchend"} \cap listeners # {}
    /\ mouseRef' = [x |-> 0, y |-> 0, active |-> FALSE]
    /\ last' = [op |-> "HandleEnd", src |-> ""]
    /\ UNCHANGED <<build, listeners, mounted, variant, imageSrc, settings, activeImageSrc, changes,
                   win, fm, anim, console>>

\* handleTouchMove: touches is e.touches, the positions of the touch points
\* (relative to the canvas); only touches[0] is looked at
HandleTouchMove(touches) ==
    /\ "touchmove" \in listeners
    /\ mouseRef' = IF Len(touches) > 0
                   THEN [x |-> touches[1][1], y |-> touches[1][2], active |-> TRUE]
                   ELSE mouseRef
    /\ last' = [op |-> "HandleTouchMove", src |-> "", touches |-> touches]
    /\ UNCHANGED <<build, listeners, mounted, variant, imageSrc, settings, activeImageSrc, changes,
                   win, fm, anim, console>>

\* handleEnd (mouseout, touchend)
HandleEnd ==
    /\ {"mouseout", "touchend"} \cap listeners # {}
    /\ mouseRef' = [mouseRef EXCEPT !.active = FALSE]
    /\ last' = [op |-> "HandleEnd", src |-> ""]
    /\ UNCHANGED <<build, listeners, mounted, variant, imageSrc, settings, activeImageSrc, changes,
                   win, fm, anim, console>>

Next ==
    \/ Mount
    \/ \E v \in Variants : SetVariant(v)
    \/ \E src \in Sources : SetImageSrc(src)
    \/ \E g \in GapValues : SetGap(g)
    \/ \E k \in PhysicsKeys : \E val \in PhysicsValues(k) : SetPhysics(k, val)
    \/ \E w \in WinSizes : HandleResize(w)
    \/ TimerFire
    \/ \E l \in fm.loads : \E throws \in BOOLEAN : ImgOnload(l, throws)
    \/ \E l \in fm.loads : ImgOnerror(l)
    \/ Animate

\* the mounted canvas with its props, resizes, loads and frames; the pointer
\* stays idle (pointer events are in SpecPointer) and the canvas stays mounted
\* (the unmount is in SpecLife)
Spec == Init /\ [][Next]_vars

\* --------------------------------------------------------- observations
\* the generator run that made the active field; kind "none" for the initial or
\* cleared []
FieldRun ==
    IF fm.fieldGen = 0 THEN [kind |-> "none", src |-> "", gap |-> 0, w |-> 0, h |-> 0]
                       ELSE fm.gens[fm.fieldGen]
FieldKind == FieldRun.kind

\* the identities of the particles of a field
Ids(ps) == {ps[i].id : i \in 1..Len(ps)}
\* the particles of a field with the part of them that update never writes
Anchors(ps) == [i \in 1..Len(ps) |-> <<ps[i].id, ps[i].originX, ps[i].originY>>]

\* in this step, the onload of load l ran the sampler and installed its field
DecodeInstalls(l) ==
    /\ l \in fm.loads /\ l \notin fm'.loads
    /\ Len(fm'.gens) = Len(fm.gens) + 1
    /\ fm'.gens[Len(fm'.gens)].kind = "image"
    /\ fm'.fieldGen = Len(fm'.gens)

\* C1: a decode that completes after its source was superseded by a request for
\* another source is discarded: it installs no field (image mode).
C1_StaleDecodeDiscarded ==
    [][\A l \in fm.loads :
         (variant = "image" /\ l.src # activeImageSrc) => ~DecodeInstalls(l)]_vars

\* C2: in generative mode the active field is empty or a tree field, never an
\* image-sampled one (a decode pending at the switch does not replace it).
C2_NoImageFieldInGenerative ==
    (mounted /\ variant = "generative") => FieldKind \in {"none", "tree"}

\* C3: the failure of a load whose source has been superseded changes neither
\* the current image source nor the field, and starts no regeneration.
C3_StaleFailureIgnored ==
    [][(last'.op = "ImgOnerror" /\ last'.src # activeImageSrc)
         => /\ activeImageSrc' = activeImageSrc
            /\ fm'.ps = fm.ps
            /\ fm'.nLoads = fm.nLoads
            /\ fm'.gens = fm.gens
            /\ fm'.timer = fm.timer]_vars

\* C4: a generator run installs a field made only of the particles it created;
\* no particle of the previous field is in it, and in no step is a field changed
\* in part (its particle set is kept, or replaced by a disjoint one).
C4_FieldReplacedWhole ==
    [][/\ Len(fm'.gens) > Len(fm.gens)
          => /\ fm'.fieldGen = Len(fm'.gens)
             /\ \A i \in 1..Len(fm'.ps) : fm'.ps[i].id[1] = Len(fm'.gens)
             /\ Ids(fm'.ps) \cap Ids(fm.ps) = {}
       /\ \/ Ids(fm'.ps) = Ids(fm.ps)
          \/ Ids(fm'.ps) \cap Ids(fm.ps) = {}]_vars

\* a tree field was replaced by an image field (plain build)
C4_Witness ==
    /\ build = "plain" /\ fm.fieldGen = 2
    /\ fm.gens[1].kind = "tree" /\ FieldKind = "image"
    /\ Len(fm.ps) > 0

\* this step changes friction, ease, size or breathIntensity and nothing else
\* of the props or the window
PhysicsOnlyChange ==
    /\ settings' # settings /\ settings'.gap = settings.gap
    /\ variant' = variant /\ activeImageSrc' = activeImageSrc /\ win' = win

\* C5: a change of friction, ease, size or breathIntensity alone runs no
\* generator, starts no load or timer, and keeps the same particles with the
\* same origins in the field.
C5_PhysicsChangeKeepsField ==
    [][PhysicsOnlyChange
         => /\ fm'.gens = fm.gens
            /\ fm'.loads = fm.loads /\ fm'.nLoads = fm.nLoads
            /\ fm'.timer = fm.timer
            /\ fm'.fieldGen = fm.fieldGen
            /\ Anchors(fm'.ps) = Anchors(fm.ps)]_vars

\* a physics setting was changed while an image field was active
C5_Witness ==
    /\ last.op = "SetPhysics"
    /\ variant = "image" /\ FieldKind = "image"
    /\ Len(fm.ps) > 0

\* C6: the frame run right after a change of friction, ease, size or
\* breathIntensity integrates every particle with the new values; when size
\* changed, the derived size is not the one the old size gives.
C6_FirstFrameUsesNewSettings ==
    [][PhysicsOnlyChange
         => /\ Len(fm'.ps) = Len(fm.ps)
            /\ \A i \in 1..Len(fm.ps) :
                 LET q == fm'.ps[i]
                     new == Update(build, fm.ps[i], settings', 0, mouseRef,
                                   fm.canvasW, fm.canvasH)
                     old == Update(build, fm.ps[i], settings, 0, mouseRef,
                                   fm.canvasW, fm.canvasH)
                 IN /\ q.x = new.x /\ q.y = new.y /\ q.vx = new.vx /\ q.vy = new.vy
                    /\ settings'.size # settings.size => q.size # old.size]_vars

\* nothing is pending: no load, no timer
Quiescent == mounted /\ fm.loads = {} /\ fm.timer = {}
\* every load started so far is pending or ended in a sampled field
NoFailure ==
    fm.nLoads = Cardinality(fm.loads)
                + Cardinality({g \in 1..Len(fm.gens) : fm.gens[g].kind = "image"})

\* C7: once nothing is pending and nothing has failed, the active field is the
\* one generated for the current mode, image source and gap.
C7_SettlesOnCurrent ==
    (Quiescent /\ NoFailure)
      => IF variant = "generative"
         THEN FieldKind = "tree"
         ELSE /\ FieldKind = "image"
              /\ FieldRun.src = activeImageSrc
              /\ FieldRun.gap = settings.gap

\* C8: a resize sets the canvas extent to the new window size and regenerates
\* for the current mode over it: at once a tree built from the new dimensions
\* (generative), or a new load of the current source and gap while the old field
\* stays as it is (image); every decode samples the grid of the extent the
\* canvas has when it completes.
C8_ResizeRegenerates ==
    [][/\ mounted' => (fm'.canvasW = win'[1] /\ fm'.canvasH = win'[2])
       /\ win' # win
          => IF variant = "generative"
             THEN /\ fm'.fieldGen = Len(fm.gens) + 1
                  /\ fm'.gens = Append(fm.gens, [kind |-> "tree", src |-> "", gap |-> 0,
                                                 w |-> win'[1], h |-> win'[2]])
                  /\ \E d \in TreeDraws :
                       fm'.ps = TreeParticles(build, fm'.fieldGen, win'[1], win'[2],
                                              fm.closure.settings.size, d.td, d.rnd,
                                              win'[1], win'[2])
                  /\ fm'.loads = fm.loads
             ELSE /\ fm'.ps = fm.ps /\ fm'.gens = fm.gens
                  /\ \E l \in fm'.loads \ fm.loads :
                       l.src = activeImageSrc /\ l.settings.gap = settings.gap
       /\ \A l \in fm.loads :
            DecodeInstalls(l)
              => /\ fm'.gens[Len(fm'.gens)].w = win[1]
                 /\ fm'.gens[Len(fm'.gens)].h = win[2]
                 /\ \E rnd \in ParticleDraws :
                      fm'.ps = ImageParticles(build, Len(fm'.gens), l.src, l.settings.gap,
                                              l.settings.size, win[1], win[2], rnd,
                                              win[1], win[2])]_vars

\* after a resize to 16 x 8 the image was sampled over the new grid
C8_Witness ==
    /\ last.op = "ImgOnload" /\ win = <<16, 8>>
    /\ FieldKind = "image" /\ FieldRun.w = 16 /\ FieldRun.h = 8
    /\ Len(fm.ps) > 0

\* the loads started in this step
NewLoads == fm'.loads \ fm.loads
\* this step started or scheduled a load of the fallback source
FallbackAttempted ==
    \/ Cardinality(NewLoads) = 1 /\ \A l \in NewLoads : l.src = FALLBACK_IMAGE_URL
    \/ /\ fm'.timer # {} /\ fm'.closure.variant = "image"
       /\ fm'.closure.src = FALLBACK_IMAGE_URL /\ fm'.closure # fm.closure

C10_FallbackFailureTerminal ==
    [][(last'.op = "ImgOnerror" /\ last'.src = FALLBACK_IMAGE_URL
          /\ imageSrc # FALLBACK_IMAGE_URL)
         => /\ Len(console') = Len(console) + 1
            /\ fm'.ps = <<>>]_vars

\* in this step the onload of a pending load ran and getImageData threw
DecodeThrows ==
    /\ last'.op = "ImgOnload"
    /\ fm'.loads # fm.loads
    /\ Len(fm'.gens) = Len(fm.gens)

\* C11: when getImageData throws in img.onload, the exception is caught and
\* reported, the active field is empty afterwards, and the render loop still
\* has its next frame scheduled.
C11_ThrowLeavesEmptyField ==
    [][DecodeThrows
         => /\ Len(console') = Len(console) + 1
            /\ console'[Len(console')] = "error: Error reading image data"
            /\ fm'.ps = <<>>
            /\ anim'.raf # {}]_vars

\* this step rendered a frame: a callback of requestAnimationFrame, or the
\* animate() call of a run of the animation effect
FrameStep == last'.op \in {"Animate", "Mount", "SetPhysics"}

\* C12: every frame, whatever the field (empty included), paints one fade layer
\* and schedules the next frame with the loop's counter advanced by one; once
\* mounted a next frame is always scheduled.
C12_LoopNeverStalls ==
    [][/\ mounted' => anim'.raf # {}
       /\ FrameStep
            => /\ anim'.fades = anim.fades + 1
               /\ anim'.frames = anim.frames + 1
               /\ \E n \in anim'.raf \ anim.raf :
                    /\ n.id = anim'.ref
                    /\ last'.op = "Animate"
                         => \E r \in anim.raf \ anim'.raf : n.time = r.time + 1]_vars

\* a frame was rendered over the empty field left by a failed load
C12_Witness ==
    /\ last.op = "Animate" /\ fm.ps = <<>>
    /\ fm.loads = {} /\ fm.timer = {} /\ console # <<>>
    /\ anim.fades >= 2 /\ anim.raf # {}

\* the counter `time` of the running loop: the value the next frame passes to
\* the integrator (0 before the loop starts)
LoopTime ==
    IF \E r \in anim.raf : r.id = anim.ref
    THEN (CHOOSE r \in anim.raf : r.id = anim.ref).time
    ELSE 0

\* C13: the frame counter passed to the integrator grows by exactly one with
\* every rendered frame and never decreases or resets while mounted, also when
\* friction, ease, size or breathIntensity change.
C13_CounterNeverResets ==
    [][/\ FrameStep => LoopTime' = LoopTime + 1
       /\ LoopTime' >= LoopTime]_vars

\* C14: every particle of the active field was created with its origin inside
\* the canvas the generator ran on: 0 <= originX <= width, 0 <= originY <= height.
C14_OriginsWithinCanvas ==
    \A i \in 1..Len(fm.ps) :
        /\ 0 <= fm.ps[i].originX /\ fm.ps[i].originX <= FieldRun.w * 1000
        /\ 0 <= fm.ps[i].originY /\ fm.ps[i].originY <= FieldRun.h * 1000

\* ------------------------------------------------- the integrator on its own
\* friction and ease of the documented ranges [0, 1) and (0, 0.25]
SettleFrictions == {0, 500, 940}
SettleEases == {80, 250}

\* A mounted canvas 16 x 8 with one particle just constructed around the origin
\* (8, 4) and the loop about to run its first frame; the pointer is inactive.
InitSettle ==
    /\ build \in Builds
    /\ mounted = TRUE
    /\ variant = "image"
    /\ imageSrc = DefaultImageSrc
    /\ activeImageSrc = DefaultImageSrc
    /\ settings \in {[DefaultSettings EXCEPT !.friction = f, !.ease = e] :
                        f \in SettleFrictions, e \in SettleEases}
    /\ changes = 0
    /\ win = <<16, 8>>
    /\ \E rnd \in ParticleDraws : \E orn \in BOOLEAN :
         fm = [ps |-> << NewParticle(build, <<1, 1>>, 8000, 4000, <<40, 160, 60, 1000>>,
                                     settings.size, orn, rnd, 16, 8) >>,
               fieldGen |-> 1,
               gens |-> << [kind |-> "image", src |-> DefaultImageSrc,
                            gap |-> settings.gap, w |-> 16, h |-> 8] >>,
               loads |-> {}, nLoads |-> 1, timer |-> {},
               resize |-> {[variant |-> "image", src |-> DefaultImageSrc,
                            settings |-> settings]},
               canvasW |-> 16, canvasH |-> 8, drawn |-> "",
               closure |-> [variant |-> "image", src |-> DefaultImageSrc,
                            settings |-> settings]]
    /\ anim = [raf |-> {[id |-> 0, time |-> 0, settings |-> settings]}, ref |-> 0,
               frames |-> 0, fades |-> 0, inFrame |-> 0]
    /\ mouseRef = [x |-> 0, y |-> 0, active |-> FALSE]
    /\ listeners = PointerEvents
    /\ console = <<>>
    /\ last = [op |-> "init", src |-> ""]

NextSettle == AnimateWithin(MaxSettleFrames)

SpecSettle == InitSettle /\ [][NextSettle]_vars

\* distance of particle p from its home position of the frame with counter t
HomeDistance(p, t) ==
    Hypot(p.x - HomeX(build, p, settings, t, mouseRef, fm.canvasW),
          p.y - HomeY(build, p, settings, t, mouseRef, fm.canvasH))

\* every particle is within eps of the home position of the latest frame
Settled(eps) ==
    \A i \in 1..Len(fm.ps) : HomeDistance(fm.ps[i], Max(0, anim.frames - 1)) <= eps

\* C15 as stated: for friction in [0, 1) and ease in (0, 0.25], after
\* SettleFrames frames every particle is within Epsilon of its home position.
C15_ConvergesForAllFriction ==
    anim.frames >= SettleFrames => Settled(Epsilon)

\* C15 amended: for friction in (0, 1) and ease in (0, 0.25], after SettleFrames
\* frames every particle is within Epsilon of its home position, and at no
\* frame is it further from it than 20 px; with friction 0 it never moves.
C15_ConvergesForPositiveFriction ==
    /\ Settled(20000)
    /\ (settings.friction > 0 /\ anim.frames >= SettleFrames) => Settled(Epsilon)
    /\ settings.friction = 0
         => \A i \in 1..Len(fm.ps) :
              LET p == fm.ps[i]
                  rnd == CHOOSE d \in ParticleDraws : d.phase = p.randomPhase
              IN /\ p.vx = 0 /\ p.vy = 0
                 /\ p.x = p.originX + ScatterX(build, rnd.sx, win[1], win[2])
                 /\ p.y = p.originY + ScatterY(build, rnd.sy, win[1], win[2])

\* a particle constructed more than Epsilon away from its home is within
\* Epsilon of it after SettleFrames frames (depth build, friction 0.94)
C15_Witness ==
    /\ anim.frames >= SettleFrames /\ settings.friction = 940 /\ build = "depth"
    /\ Settled(Epsilon)
    /\ \E i \in 1..Len(fm.ps) :
         LET rnd == CHOOSE d \in ParticleDraws : d.phase = fm.ps[i].randomPhase
         IN Hypot(ScatterX(build, rnd.sx, win[1], win[2]),
                  ScatterY(build, rnd.sy, win[1], win[2])) > Epsilon

\* C16: at most one animation-frame callback is scheduled at any time; a
\* restart of the loop leaves none of the previous loop's callbacks scheduled;
\* and in no display frame is the field integrated more than once.
C16_SingleLoopSingleStep ==
    [][/\ Cardinality(anim'.raf) <= 1
       /\ last'.op = "SetPhysics" => anim'.raf \cap anim.raf = {}
       /\ anim'.inFrame <= 1]_vars

\* the state of the field as far as the component can tell: the only test it
\* makes is particlesRef.current.length > 0; a load in progress is held by no
\* ref and no state of the component
ManagerState == IF Len(particlesRef) > 0 THEN "Ready" ELSE "NoField"

\* C17: the field manager is in one of NoField, Pending, Ready, and it is in
\* Pending exactly while an image load has started and has neither completed
\* nor failed (so Pending is never taken for a Ready state with an empty field).
C17_PendingWhileLoading ==
    mounted => /\ ManagerState \in {"NoField", "Pending", "Ready"}
               /\ (fm.loads # {}) <=> (ManagerState = "Pending")

\* ---------------------------------------------------- the sampler on its own
\* The canvas is about to mount in image mode with any probe image, any probe
\* gap and any of the sample window sizes.
InitSample ==
    /\ build \in Builds
    /\ mounted = FALSE
    /\ variant = "image"
    /\ imageSrc \in ProbeSources
    /\ activeImageSrc = imageSrc
    /\ settings \in {[DefaultSettings EXCEPT !.gap = g] : g \in ProbeGaps}
    /\ changes = 0
    /\ win \in SampleWinSizes
    /\ fm = [ps |-> <<>>, fieldGen |-> 0, gens |-> <<>>, loads |-> {}, nLoads |-> 0,
             timer |-> {}, resize |-> {}, canvasW |-> 0, canvasH |-> 0,
             drawn |-> "", closure |-> NoClosure]
    /\ anim = [raf |-> {}, ref |-> 0, frames |-> 0, fades |-> 0, inFrame |-> 0]
    /\ mouseRef = [x |-> 0, y |-> 0, active |-> FALSE]
    /\ listeners = {}
    /\ console = <<>>
    /\ last = [op |-> "init", src |-> ""]

NextSample ==
    \/ Mount
    \/ TimerFire
    \/ \E l \in fm.loads : \E throws \in BOOLEAN : ImgOnload(l, throws)

SpecSample == InitSample /\ [][NextSample]_vars

\* the indices of the particles of field ps whose origin is pixel (x, y)
ParticlesAt(ps, x, y) ==
    {i \in 1..Len(ps) : ps[i].originX = x * 1000 /\ ps[i].originY = y * 1000}

\* C18: a sampled pixel with alpha below the threshold gives no particle; one
\* with alpha at or above it gives exactly one particle, at the pixel's
\* coordinates, with the pixel's RGB, flagged accent exactly when the mean of
\* R, G, B is at or above the brightness threshold.
C18_SamplerAtOrAboveThreshold ==
    [][\A l \in fm.loads :
         DecodeInstalls(l)
           => LET pts == SamplePoints(fm.canvasW, fm.canvasH,
                                      Stride(build, l.settings.gap))
              IN \A k \in 1..Len(pts) :
                   LET pix == DrawnPixel(l.src, fm.canvasW, fm.canvasH, pts[k].x, pts[k].y)
                       here == ParticlesAt(fm'.ps, pts[k].x, pts[k].y)
                   IN IF pix[4] >= AlphaThreshold(build)
                      THEN /\ Cardinality(here) = 1
                           /\ \A i \in here :
                                /\ fm'.ps[i].color[1] = pix[1]
                                /\ fm'.ps[i].color[2] = pix[2]
                                /\ fm'.ps[i].color[3] = pix[3]
                                /\ fm'.ps[i].isOrnament
                                     <=> (pix[1] + pix[2] + pix[3] >= 3 * ShinyThreshold(build))
                      ELSE here = {}]_vars

\* the pixels of a w x h canvas on the grid of stride s, with s >= 1
Grid(w, h, s) ==
    {<<x, y>> \in (0..(w - 1)) \X (0..(h - 1)) : x % s = 0 /\ y % s = 0}

\* C19: whatever the gap (zero, negative and fractional included), the decode
\* completes with a field sampled on the grid of stride
\* max(minimum stride, floor(gap)) >= 1: every grid pixel the sampler keeps
\* has exactly one particle and no particle lies off the grid.
C19_StrideClamped ==
    [][\A l \in fm.loads :
         DecodeInstalls(l)
           => LET g == l.settings.gap \div 10
                  s == IF g > MinGap(build) THEN g ELSE MinGap(build)
                  kept == {c \in Grid(fm.canvasW, fm.canvasH, s) :
                             DrawnPixel(l.src, fm.canvasW, fm.canvasH, c[1], c[2])[4]
                               > AlphaThreshold(build)}
              IN /\ s >= 1
                 /\ s = Stride(build, l.settings.gap)
                 /\ Len(fm'.ps) = Cardinality(kept)
                 /\ \A c \in kept : Cardinality(ParticlesAt(fm'.ps, c[1], c[2])) = 1]_vars

\* a field was sampled with gap 0 or below, or with a fractional gap
C19_Witness ==
    /\ last.op = "ImgOnload" /\ FieldKind = "image"
    /\ FieldRun.gap \in {-10, 0, 5}
    /\ Len(fm.ps) > 1

\* --------------------------------------------------- the pointer and the loop
\* The canvas mounts in generative mode; pointer events arrive at any time
\* between the frames.
InitPointer == Init /\ variant = "generative"

NextPointer ==
    \/ Mount
    \/ TimerFire
    \/ \E pos \in PointerPositions : HandleMouseMove(pos)
    \/ \E touches \in TouchLists : HandleTouchMove(touches)
    \/ HandleEnd
    \/ Animate

SpecPointer == InitPointer /\ [][NextPointer]_vars

\* C20: a frame integrates every particle against one pointer state, the one
\* mouseRef holds when the frame starts; a pointer handler writes x, y and
\* active in one step and no frame runs in that step.
C20_OnePointerStatePerFrame ==
    [][/\ last'.op = "Animate"
            => /\ mouseRef' = mouseRef
               /\ \E r \in anim.raf :
                    \A i \in 1..Len(fm.ps) :
                        fm'.ps[i] = Update(build, fm.ps[i], r.settings, r.time, mouseRef,
                                           fm.canvasW, fm.canvasH)
       /\ mouseRef' # mouseRef
            => /\ fm'.ps = fm.ps /\ anim' = anim
               /\ \/ \E pos \in PointerPositions :
                        mouseRef' = [x |-> pos[1], y |-> pos[2], active |-> TRUE]
                  \/ mouseRef' = [mouseRef EXCEPT !.active = FALSE]]_vars

\* a frame integrated a field of three particles while the pointer was active
C20_Witness ==
    /\ last.op = "Animate" /\ mouseRef.active
    /\ Len(fm.ps) >= 3
    /\ \E i \in 1..Len(fm.ps) : fm.ps[i].vx # 0

\* C21: one integration step computes, per axis,
\* velocity' = (velocity + (home - position) * ease + repulsion) * friction and
\* position' = position + velocity': the damping follows both forces and the
\* position moves by the damped velocity.
C21_DampingAfterForces ==
    [][last'.op = "Animate"
         => \E r \in anim.raf \ anim'.raf :
              \A i \in 1..Len(fm.ps) :
                 LET p == fm.ps[i]
                     q == fm'.ps[i]
                     s == r.settings
                     homeX == HomeX(build, p, s, r.time, mouseRef, fm.canvasW)
                     homeY == HomeY(build, p, s, r.time, mouseRef, fm.canvasH)
                     rep == MouseForce(build, p, mouseRef)
                 IN /\ q.vx = ((p.vx + ((homeX - p.x) * s.ease) \div 1000 + rep[1])
                                 * s.friction) \div 1000
                    /\ q.vy = ((p.vy + ((homeY - p.y) * s.ease) \div 1000 + rep[2])
                                 * s.friction) \div 1000
                    /\ q.x = p.x + q.vx
                    /\ q.y = p.y + q.vy]_vars

\* a frame of the plain build integrated moving particles (the frame of the
\* mount gave them a velocity) while the pointer repelled them
C21_Witness ==
    /\ last.op = "Animate" /\ build = "plain" /\ mouseRef.active
    /\ anim.frames >= 2
    /\ \A i \in 1..Len(fm.ps) : fm.ps[i].vx # 0 /\ fm.ps[i].vy # 0
    /\ Len(fm.ps) >= 3

\* ------------------------------------------------ the repulsion on its own
\* where the pointer is put relative to the particle: on it, inside the
\* interaction radius R, exactly at R (along an axis and on the diagonal),
\* and beyond it
ForceOffsets(b) ==
    LET R == ForceDistance(b) * 1000
    IN {<<0, 0>>, <<R \div 2, 0>>, <<0, -(R \div 2)>>, <<30000, -40000>>,
        <<-30000, 40000>>, <<10 - R, 0>>, <<R, 0>>, <<-R, 0>>, <<0, R>>,
        <<-((R * 3) \div 5), (R * 4) \div 5>>, <<R + 1000, 0>>, <<-R, -R>>}

\* A mounted canvas 400 x 300 with one particle just constructed around the
\* origin (200, 150) and the loop about to run its first frame.
InitForce ==
    /\ build \in Builds
    /\ mounted = TRUE
    /\ variant = "image"
    /\ imageSrc = DefaultImageSrc
    /\ activeImageSrc = DefaultImageSrc
    /\ settings = DefaultSettings
    /\ changes = 0
    /\ win = <<400, 300>>
    /\ \E rnd \in ParticleDraws :
         fm = [ps |-> << NewParticle(build, <<1, 1>>, 200000, 150000,
                                     <<40, 160, 60, 1000>>, settings.size, FALSE, rnd,
                                     400, 300) >>,
               fieldGen |-> 1,
               gens |-> << [kind |-> "image", src |-> DefaultImageSrc,
                            gap |-> settings.gap, w |-> 400, h |-> 300] >>,
               loads |-> {}, nLoads |-> 1, timer |-> {},
               resize |-> {[variant |-> "image", src |-> DefaultImageSrc,
                            settings |-> settings]},
               canvasW |-> 400, canvasH |-> 300, drawn |-> "",
               closure |-> [variant |-> "image", src |-> DefaultImageSrc,
                            settings |-> settings]]
    /\ anim = [raf |-> {[id |-> 0, time |-> 0, settings |-> settings]}, ref |-> 0,
               frames |-> 0, fades |-> 0, inFrame |-> 0]
    /\ mouseRef = [x |-> 0, y |-> 0, active |-> FALSE]
    /\ listeners = PointerEvents
    /\ console = <<>>
    /\ last = [op |-> "init", src |-> ""]

\* the pointer is inside the window
InWindow(pos) ==
    /\ 0 <= pos[1] /\ pos[1] <= win[1] * 1000
    /\ 0 <= pos[2] /\ pos[2] <= win[2] * 1000

NextForce ==
    \/ \E off \in ForceOffsets(build) :
         LET pos == <<fm.ps[1].x + off[1], fm.ps[1].y + off[2]>>
         IN InWindow(pos) /\ HandleMouseMove(pos)
    \/ HandleEnd
    \/ AnimateWithin(MaxForceFrames)

SpecForce == InitForce /\ [][NextForce]_vars

\* distance between the pointer and particle p
PointerDistance(p) == Hypot(mouseRef.x - p.x, mouseRef.y - p.y)

\* C22: the repulsion a frame applies to a particle is zero when the pointer is
\* inactive or at least the interaction radius away; inside the radius its
\* magnitude is (radius - distance) / radius times the repulsion strength and
\* it points from the pointer towards the particle.
C22_RepulsionLinearFalloff ==
    [][last'.op = "Animate"
         => \E r \in anim.raf \ anim'.raf :
              \A i \in 1..Len(fm.ps) :
                 LET p == fm.ps[i]
                     q == fm'.ps[i]
                     s == r.settings
                     R == ForceDistance(build) * 1000
                     d == PointerDistance(p)
                     rep == MouseForce(build, p, mouseRef)
                     springX == ((HomeX(build, p, s, r.time, mouseRef, fm.canvasW) - p.x)
                                  * s.ease) \div 1000
                     springY == ((HomeY(build, p, s, r.time, mouseRef, fm.canvasH) - p.y)
                                  * s.ease) \div 1000
                     expected == ((R - d) * RepulsionStrength(build)) \div (R \div 1000)
                 IN \* rep is the repulsion this frame applied
                    /\ q.vx = ((p.vx + springX + rep[1]) * s.friction) \div 1000
                    /\ q.vy = ((p.vy + springY + rep[2]) * s.friction) \div 1000
                    /\ (~mouseRef.active \/ d >= R) => rep = <<0, 0>>
                    /\ (mouseRef.active /\ d < R)
                         => /\ Abs(Hypot(rep[1], rep[2]) - expected) <= ForceTolerance
                            /\ rep[1] * (p.x - mouseRef.x) >= 0
                            /\ rep[2] * (p.y - mouseRef.y) >= 0
                            /\ LET A == rep[1] \div 10
                                   B == rep[2] \div 10
                                   u == (p.x - mouseRef.x) \div 10
                                   v == (p.y - mouseRef.y) \div 10
                               IN Abs(A * v - B * u)
                                    <= (ForceTolerance \div 10) * (Abs(u) + Abs(v) + 1)
                                       + Abs(A) + Abs(B)]_vars

\* the first frame gave a particle constructed within 32 px of its home a speed
\* above 5 px per frame: the spring alone gives it less than 3, the rest is the
\* repulsion of the pointer inside the radius
C22_Witness ==
    /\ last.op = "Animate" /\ mouseRef.active
    /\ build = "depthNoFallback" /\ win = <<400, 300>> /\ anim.frames = 1
    /\ \E i \in 1..Len(fm.ps) :
         /\ Hypot(fm.ps[i].vx, fm.ps[i].vy) > 5000
         /\ PointerDistance(fm.ps[i]) < ForceDistance(build) * 1000

\* what Particle.update never assigns: identity, origin, colour, phase,
\* oscillation speed, depth, base size and accent flag
Immutable(p) ==
    <<p.id, p.originX, p.originY, p.color, p.randomPhase, p.oscillationSpeed, p.z,
      p.baseSize, p.isOrnament>>

\* C23: a frame changes only position, velocity and current size of a
\* particle: as long as the field is not replaced, origin, colour, phase,
\* oscillation speed, depth and accent flag of every particle stay as created,
\* and the new state of a particle is a function of its own old state (and the
\* settings, counter, pointer and canvas), of no other particle.
C23_UpdateTouchesOwnMotionOnly ==
    [][(Ids(fm'.ps) = Ids(fm.ps) /\ fm.ps # <<>>)
         => /\ Len(fm'.ps) = Len(fm.ps)
            /\ \A i \in 1..Len(fm.ps) : Immutable(fm'.ps[i]) = Immutable(fm.ps[i])
            /\ last'.op = "Animate"
                 => \E r \in anim.raf \ anim'.raf :
                      \A i \in 1..Len(fm.ps) :
                         fm'.ps[i] = Frame(<<fm.ps[i]>>, r.settings, r.time, fm)[1]]_vars

\* two frames have moved and resized the particles of a tree in the plain build
C23_Witness ==
    /\ last.op = "Animate" /\ build = "plain" /\ FieldKind = "tree"
    /\ anim.frames >= 2 /\ Len(fm.ps) >= 3
    /\ \A i \in 1..Len(fm.ps) :
         /\ fm.ps[i].size # fm.ps[i].baseSize
         /\ fm.ps[i].x # fm.ps[i].originX

\* C24: the pointer state is written by the pointer handlers only: a move sets
\* the coordinates of that event and active; an end event clears active and
\* keeps the coordinates; a touch-move without a touch point changes nothing.
\* So after any sequence of events the state holds the coordinates of the most
\* recent move and is active exactly when no end event followed it.
C24_PointerLastWriteWins ==
    [][CASE last'.op = "HandleMouseMove"
              -> mouseRef' = [x |-> last'.x, y |-> last'.y, active |-> TRUE]
         [] last'.op = "HandleTouchMove"
              -> IF last'.touches = <<>>
                 THEN mouseRef' = mouseRef
                 ELSE mouseRef' = [x |-> last'.touches[1][1], y |-> last'.touches[1][2],
                                   active |-> TRUE]
         [] last'.op = "HandleEnd"
              -> /\ ~mouseRef'.active
                 /\ mouseRef'.x = mouseRef.x /\ mouseRef'.y = mouseRef.y
         [] OTHER -> mouseRef' = mouseRef]_vars

\* an end event after a move to (6, 5): inactive, the coordinates kept
C24_Witness ==
    /\ last.op = "HandleEnd"
    /\ mouseRef = [x |-> 6000, y |-> 5000, active |-> FALSE]

\* --------------------------------------------- the tree generator on its own
\* The canvas is about to mount in generative mode in a window of any of the
\* tree sizes.
InitTree ==
    /\ build \in Builds
    /\ mounted = FALSE
    /\ variant = "generative"
    /\ imageSrc = DefaultImageSrc
    /\ activeImageSrc = DefaultImageSrc
    /\ settings = DefaultSettings
    /\ changes = 0
    /\ win \in TreeWinSizes
    /\ fm = [ps |-> <<>>, fieldGen |-> 0, gens |-> <<>>, loads |-> {}, nLoads |-> 0,
             timer |-> {}, resize |-> {}, canvasW |-> 0, canvasH |-> 0,
             drawn |-> "", closure |-> NoClosure]
    /\ anim = [raf |-> {}, ref |-> 0, frames |-> 0, fades |-> 0, inFrame |-> 0]
    /\ mouseRef = [x |-> 0, y |-> 0, active |-> FALSE]
    /\ listeners = {}
    /\ console = <<>>
    /\ last = [op |-> "init", src |-> ""]

NextTree ==
    \/ MountWith(EdgeTreeDraws)
    \/ TimerFireWith(EdgeTreeDraws)

SpecTree == InitTree /\ [][NextTree]_vars

\* the indices of the body particles and of the accent particles of a field
BodyOf(ps) == {i \in 1..Len(ps) : ~ps[i].isOrnament}
AccentOf(ps) == {i \in 1..Len(ps) : ps[i].isOrnament}

\* C25: in a tree field every body particle is strictly inside the cone,
\* |originX - cx| < radiusAtHeight at the height it was sampled at, with originY
\* in [cy - treeHeight, cy]; there are at most BodyCount body particles (samples
\* on or outside the bound are skipped) and exactly OrnamentCount + StarCount
\* accent particles.
C25_BodyInsideCone ==
    FieldKind = "tree"
      => LET cx == 500 * FieldRun.w
             cy == 850 * FieldRun.h
             treeHeight == Min(700 * FieldRun.h, 600000)
             maxRadius == Min(350 * FieldRun.w, 250000)
         IN /\ \A i \in BodyOf(fm.ps) :
                 /\ cy - treeHeight <= fm.ps[i].originY /\ fm.ps[i].originY <= cy
                 /\ \E hp \in 0..100 :
                      /\ fm.ps[i].originY = cy - (hp * treeHeight) \div 100
                      /\ Abs(fm.ps[i].originX - cx)
                           < (((maxRadius * (100 - hp)) \div 100) * BranchWave(hp)) \div 1000
            /\ Cardinality(BodyOf(fm.ps)) <= BodyCount
            /\ Cardinality(AccentOf(fm.ps)) = OrnamentCount + StarCount

\* a tree on the 2000 x 1000 canvas whose body sample was drawn at 99.9 % of the
\* radius and kept
C25_Witness ==
    /\ FieldKind = "tree" /\ FieldRun.w = 2000 /\ FieldRun.h = 1000
    /\ \E i \in BodyOf(fm.ps) : fm.ps[i].originX > 500 * FieldRun.w + 100000

\* the least integer not below a / b, for b > 0
CeilDiv(a, b) == (a + b - 1) \div b

\* C26: a decode visits exactly the pixels of the canvas whose x and y are
\* multiples of the stride g, each once, ceil(W/g) * ceil(H/g) of them; the
\* field has one particle per visited pixel above the alpha threshold, so
\* ceil(W/g) * ceil(H/g) particles when all of them are; with the stride doubled
\* the number of visited pixels is a quarter, up to the rounding of the two
\* quotients.
C26_GridVisitedOnce ==
    [][\A l \in fm.loads :
         DecodeInstalls(l)
           => LET W == fm.canvasW
                  H == fm.canvasH
                  g == Stride(build, l.settings.gap)
                  pts == SamplePoints(W, H, g)
                  n == CeilDiv(W, g) * CeilDiv(H, g)
                  opaque == {k \in 1..Len(pts) :
                               DrawnPixel(l.src, W, H, pts[k].x, pts[k].y)[4]
                                 > AlphaThreshold(build)}
                  n2 == Len(SamplePoints(W, H, 2 * g))
              IN /\ {<<pts[k].x, pts[k].y>> : k \in 1..Len(pts)} = Grid(W, H, g)
                 /\ \A j, k \in 1..Len(pts) : pts[j] = pts[k] => j = k
                 /\ Len(pts) = n
                 /\ Len(fm'.ps) = Cardinality(opaque)
                 /\ Cardinality(opaque) = Len(pts) => Len(fm'.ps) = n
                 /\ 4 * n2 >= n
                 /\ 4 * n2 <= (CeilDiv(W, g) + 1) * (CeilDiv(H, g) + 1)]_vars

\* the 4 x 4 canvas, every pixel of it covered by the drawn image, was sampled
\* with stride 2: four particles
C26_Witness ==
    /\ last.op = "ImgOnload" /\ FieldKind = "image"
    /\ FieldRun.w = 4 /\ FieldRun.h = 4
    /\ Stride(build, FieldRun.gap) = 2
    /\ Len(fm.ps) = 4

\* C27: the image drawn for the pixel read is cleared in the same run of
\* img.onload on every path, the one where getImageData throws included, so no
\* frame is rendered over a canvas that still holds the drawn image.
C27_DrawnImageAlwaysCleared ==
    [][/\ last'.op = "ImgOnload" => fm'.drawn = ""
       /\ FrameStep => fm.drawn = ""]_vars

\* ------------------------------------------------- from mount to unmount
NextLife ==
    \/ Next
    \/ Unmount

SpecLife == Init /\ [][NextLife]_vars

\* the component was mounted and is not any more
Unmounted == ~mounted /\ anim.frames > 0
\* closure cl is the one of the current mode, image source and gap
Latest(cl) ==
    /\ cl.variant = variant /\ cl.src = activeImageSrc
    /\ cl.settings.gap = settings.gap

\* C28: in the builds with the 10 ms timer, a change of mode, image source or
\* gap empties the field in the same step; at most one timer is pending, none
\* after the unmount; and a timer that fires is the one of the latest request:
\* the generator it starts is the one of the current mode, source and gap.
C28_OnlyLatestTimerRuns ==
    [][HasTimer(build)
         => /\ (variant' # variant \/ activeImageSrc' # activeImageSrc
                  \/ settings'.gap # settings.gap)
                 => /\ fm'.ps = <<>>
                    /\ \A cl \in fm'.timer : Latest(cl)'
            /\ Cardinality(fm'.timer) <= 1
            /\ ~mounted' => fm'.timer = {}
            /\ last'.op = "TimerFire"
                 => /\ mounted
                    /\ \A cl \in fm.timer \ fm'.timer :
                         /\ Latest(cl) /\ cl = fm.closure
                         /\ IF cl.variant = "generative"
                            THEN /\ Len(fm'.gens) = Len(fm.gens) + 1
                                 /\ fm'.gens[Len(fm'.gens)].kind = "tree"
                            ELSE \E l \in fm'.loads \ fm.loads :
                                    l.src = activeImageSrc
                                      /\ l.settings.gap = settings.gap]_vars

\* the image source was changed before the timer of the mount fired: the only
\* generator ever started is the load of the new source
C28_Witness ==
    /\ HasTimer(build) /\ last.op = "TimerFire"
    /\ variant = "image" /\ activeImageSrc = "photo.png"
    /\ fm.nLoads = 1 /\ fm.gens = <<>>
    /\ \A l \in fm.loads : l.src = "photo.png"
    /\ fm.timer = {}

\* C29: after the unmount no frame is rendered and no pointer or resize
\* listener is registered; while mounted the pointer listeners and exactly one
\* resize listener are registered, the latter with the handler of the current
\* mode, image source and gap.
C29_UnmountReleasesAll ==
    [][/\ Unmounted
            => /\ anim'.frames = anim.frames /\ anim'.fades = anim.fades
               /\ anim.raf = {} /\ listeners = {} /\ fm.resize = {}
       /\ Unmounted'
            => anim'.raf = {} /\ listeners' = {} /\ fm'.resize = {}
       /\ mounted'
            => /\ listeners' = PointerEvents
               /\ Cardinality(fm'.resize) = 1
               /\ \A cl \in fm'.resize : Latest(cl)']_vars

\* the canvas was unmounted after it rendered two frames and after a change of
\* its props or a resize, with a load still in flight
C29_Witness ==
    /\ Unmounted /\ anim.frames >= 2 /\ changes >= 1
    /\ anim.raf = {} /\ listeners = {} /\ fm.resize = {}
    /\ fm.loads # {}

====
